---- MODULE Spec2Model ----
(***************************************************************************)
(* VoaProtect demo (voaprotect_demo.py): a Streamlit script that records   *)
(* ten seconds of speech, decodes it with a streaming recognizer, matches  *)
(* the transcript against a per-language symptom vocabulary and stores a   *)
(* triage risk and an outbreak risk in the session state.                  *)
(*                                                                         *)
(* The script is re-executed from the top on every widget interaction; the *)
(* session state survives the re-executions.  A script run is modelled as  *)
(* a sequence of steps (pc); the audio callback of the capture stream and  *)
(* the user's widget interactions interleave with these steps.             *)
(*                                                                         *)
(* Text is a sequence of one-character strings, so that lower(), join and  *)
(* the substring test are computed character by character.                 *)
(***************************************************************************)
EXTENDS Naturals, Sequences, FiniteSets

VARIABLES
  selectbox,  \* value of the language selectbox widget (kept by the browser session)
  clicked,    \* button whose click has not yet been delivered to a script run
  rerun,      \* a widget interaction has requested a re-execution of the script
  pc,         \* position of the current script run ("idle": no run in progress)
  language,   \* the script's global `language` (line 96) in the current/last run
  pressed,    \* the button that st.button reports True in the current/last run
  start,      \* st.session_state.start
  done,       \* st.session_state.done
  results,    \* st.session_state.results: list of transcript segments
  matched,    \* st.session_state.matched
  triage,     \* st.session_state.triage
  outbreak,   \* st.session_state.outbreak
  q,          \* queue.Queue() between the audio callback and the decoding loop
  pushed,     \* number of frames the audio callback has put on q in this recording
  expired,    \* time.time() - t0 >= 10
  pending,    \* the recognizer holds audio not yet returned by Result()
  final,      \* text of rec.FinalResult() (line 178)
  payload,    \* payload last handed to qrcode.make (line 223) since the last start
  entry,      \* entry last appended to voaprotect_logs.json since the last start
  err,        \* how the last recording attempt since the last start ended abnormally
  reports,    \* completions (done set to True) since the last accepted start
  flushes,    \* calls of rec.FinalResult() in the current record_and_process
  fed,        \* frames passed to rec.AcceptWaveform in the current recording, in order
  recLang,    \* the script's `language` when the post-processing set done
  startInRec  \* the undelivered click of the start button was made during the recording window

vars == <<selectbox, clicked, rerun, pc, language, pressed, start, done, results,
          matched, triage, outbreak, q, pushed, expired, pending, final,
          payload, entry, err, reports, flushes, fed, recLang, startInRec>>

----------------------------------------------------------------------------
(* Bounds of the model *)

\* frames the audio callback delivers in one recording window
MaxFrames == 2
\* non-empty segments the recognizer returns while results is shorter than this
MaxSegs == 2
\* longest list of segments the post-processing is applied to in ScoreSpec
MaxLen == 3

----------------------------------------------------------------------------
(* Configuration dicts *)

Languages == {"English", "French"}

\* INSTRUCTIONS[language]['low' | 'moderate' | 'high'] (the labels without
\* their leading emoji)
INSTRUCTIONS ==
  [l \in Languages |->
     IF l = "English"
       THEN [low |-> "Low", moderate |-> "Moderate", high |-> "High"]
       ELSE [low |-> "Faible", moderate |-> "Modéré", high |-> "Élevé"]]

SYMPTOMS ==
  [l \in Languages |->
     IF l = "English"
       THEN <<<<"f", "e", "v", "e", "r">>,
         <<"c", "h", "i", "l", "l", "s">>,
         <<"h", "e", "a", "d", "a", "c", "h", "e">>,
         <<"v", "o", "m", "i", "t", "i", "n", "g">>,
         <<"f", "a", "t", "i", "g", "u", "e">>,
         <<"n", "a", "u", "s", "e", "a">>,
         <<"m", "u", "s", "c", "l", "e", " ", "p", "a", "i", "n">>,
         <<"d", "i", "a", "r", "r", "h", "e", "a">>,
         <<"s", "o", "r", "e", " ", "t", "h", "r", "o", "a", "t">>,
         <<"e", "y", "e", " ", "p", "a", "i", "n">>,
         <<"d", "i", "z", "z", "i", "n", "e", "s", "s">>,
         <<"c", "o", "n", "f", "u", "s", "i", "o", "n">>>>
       ELSE <<<<"f", "i", "è", "v", "r", "e">>,
         <<"f", "r", "i", "s", "s", "o", "n", "s">>,
         <<"m", "a", "l", " ", "d", "e", " ", "t", "ê", "t", "e">>,
         <<"v", "o", "m", "i", "s", "s", "e", "m", "e", "n", "t", "s">>,
         <<"f", "a", "t", "i", "g", "u", "e">>,
         <<"n", "a", "u", "s", "é", "e">>,
         <<"d", "o", "u", "l", "e", "u", "r", "s", " ", "m", "u", "s", "c", "u", "l", "a", "i", "r", "e", "s">>,
         <<"d", "i", "a", "r", "r", "h", "é", "e">>,
         <<"m", "a", "u", "x", " ", "d", "e", " ", "g", "o", "r", "g", "e">>,
         <<"d", "o", "u", "l", "e", "u", "r", " ", "o", "c", "u", "l", "a", "i", "r", "e">>,
         <<"v", "e", "r", "t", "i", "g", "e", "s">>,
         <<"c", "o", "n", "f", "u", "s", "i", "o", "n">>>>]

----------------------------------------------------------------------------
(* Texts the recognizer may return *)

\* "i have a fever and fatigue and nausea"
U1 ==
  <<"i", " ", "h", "a", "v", "e", " ", "a", " ", "f", "e", "v", "e", "r",
     " ", "a", "n", "d", " ", "f", "a", "t", "i", "g", "u", "e", " ", "a",
     "n", "d", " ", "n", "a", "u", "s", "e", "a">>

\* "Chills chills HEADACHE vomiting muscle"
U2 ==
  <<"C", "h", "i", "l", "l", "s", " ", "c", "h", "i", "l", "l", "s", " ",
     "H", "E", "A", "D", "A", "C", "H", "E", " ", "v", "o", "m", "i", "t",
     "i", "n", "g", " ", "m", "u", "s", "c", "l", "e">>

\* "pain diarrhea sore throat eye pain dizziness confusion"
U3 ==
  <<"p", "a", "i", "n", " ", "d", "i", "a", "r", "r", "h", "e", "a", " ",
     "s", "o", "r", "e", " ", "t", "h", "r", "o", "a", "t", " ", "e", "y",
     "e", " ", "p", "a", "i", "n", " ", "d", "i", "z", "z", "i", "n", "e",
     "s", "s", " ", "c", "o", "n", "f", "u", "s", "i", "o", "n">>

\* "Fièvre et NAUSÉE"
U4 ==
  <<"F", "i", "è", "v", "r", "e", " ", "e", "t", " ", "N", "A", "U", "S",
     "É", "E">>

\* "no fever no chills"
U5 ==
  <<"n", "o", " ", "f", "e", "v", "e", "r", " ", "n", "o", " ", "c", "h",
     "i", "l", "l", "s">>

Utterances == {U1, U2, U3, U4, U5}

\* what the speaker says during a recording of Spec
Speech == {U1, U4}

EmptyText == <<>>

----------------------------------------------------------------------------
(* str.lower(), ' '.join and the `in` test on strings *)

UpperChars ==
  <<"A", "B", "C", "D", "E", "F", "G", "H", "I", "J", "K", "L", "M", "N",
    "O", "P", "Q", "R", "S", "T", "U", "V", "W", "X", "Y", "Z", "É", "È", "Ê">>

LowerChars ==
  <<"a", "b", "c", "d", "e", "f", "g", "h", "i", "j", "k", "l", "m", "n",
    "o", "p", "q", "r", "s", "t", "u", "v", "w", "x", "y", "z", "é", "è", "ê">>

lowerChar(c) ==
  IF \E i \in DOMAIN UpperChars : UpperChars[i] = c
    THEN LowerChars[CHOOSE i \in DOMAIN UpperChars : UpperChars[i] = c]
    ELSE c

lower(s) == [i \in 1..Len(s) |-> lowerChar(s[i])]

RECURSIVE join(_)
join(segs) ==
  IF segs = <<>> THEN <<>>
  ELSE IF Len(segs) = 1 THEN segs[1]
  ELSE segs[1] \o <<" ">> \o join(Tail(segs))

\* sub in s
Contains(sub, s) ==
  \E i \in 0..(Len(s) - Len(sub)) : \A j \in 1..Len(sub) : s[i + j] = sub[j]

\* mutant of Match: the test is made without lower()
MatchCaseSensitive(full, lang) ==
  SelectSeq(SYMPTOMS[lang], LAMBDA s : Contains(s, full))

\* mutant of Match: the terms of every language are tested
MatchAnyLanguage(full, lang) ==
  LET lfull == lower(full)
  IN  SelectSeq(SYMPTOMS["English"] \o SYMPTOMS["French"],
                LAMBDA s : Contains(lower(s), lfull))

\* [s for s in SYMPTOMS[language] if s.lower() in full.lower()]
Match(full, lang) ==
  LET lfull == lower(full)
  IN  SelectSeq(SYMPTOMS[lang], LAMBDA s : Contains(lower(s), lfull))

\* mutant of Triage: High only above six matches
TriageOffByOne(cnt, instr) ==
  IF cnt > 6 THEN instr.high
  ELSE IF cnt >= 3 THEN instr.moderate
  ELSE instr.low

\* instr['high'] if cnt>=6 else instr['moderate'] if cnt>=3 else instr['low']
Triage(cnt, instr) ==
  IF cnt >= 6 THEN instr.high
  ELSE IF cnt >= 3 THEN instr.moderate
  ELSE instr.low

\* the values random.choice([instr['low'], instr['moderate'], instr['high']]) may return
OutbreakChoices(instr) == {instr.low, instr.moderate, instr.high}


----------------------------------------------------------------------------
(* Widgets, script positions and values of the environment *)

\* key='btn_start' (line 98) and key='btn_fb' (line 244)
Buttons == {"btn_start", "btn_fb"}

\* results of get_location() (lines 116-123)
Locations == {"Antananarivo, MG", "Not available"}

\* the st.* calls at which a requested re-execution stops the running script:
\* the prompts (lines 143-153), the end of the spinner block (after line 180)
\* and the result display (lines 195-265)
YieldPcs == {"prompts", "post", "display"}

\* the capture stream is open: inside `with sd.RawInputStream(...)`
StreamPcs == {"while", "get", "final"}

\* the recording window: the loop of lines 172-177
RecordingPcs == {"while", "get"}

\* inside record_and_process
AttemptPcs == {"prompts", "model", "open", "while", "get", "final", "post"}

NoReport ==
  [location |-> "None", language |-> "None", symptoms |-> <<>>,
   triage |-> "None", outbreak |-> "None"]

\* instr = INSTRUCTIONS[language] (line 105)
instr == INSTRUCTIONS[language]

\* texts the recognizer may return for a segment: the speaker says at most
\* MaxSegs non-empty segments
DecodedTexts(res) ==
  IF Len(res) < MaxSegs THEN Speech \cup {EmptyText} ELSE {EmptyText}

\* the local state of record_and_process is dropped when it is left
DropLocals ==
  /\ q' = <<>>
  /\ pushed' = 0
  /\ expired' = FALSE
  /\ pending' = FALSE
  /\ final' = EmptyText
  /\ flushes' = 0
  /\ fed' = <<>>

----------------------------------------------------------------------------
Init ==
  /\ selectbox = "English"
  /\ clicked = "none"
  /\ rerun = FALSE
  /\ pc = "idle"
  /\ language = "English"
  /\ pressed = "none"
  /\ start = FALSE
  /\ done = FALSE
  /\ results = <<>>
  /\ matched = <<>>
  /\ triage = "None"
  /\ outbreak = "None"
  /\ q = <<>>
  /\ pushed = 0
  /\ expired = FALSE
  /\ pending = FALSE
  /\ final = EmptyText
  /\ payload = NoReport
  /\ entry = NoReport
  /\ err = "none"
  /\ reports = 0
  /\ flushes = 0
  /\ fed = <<>>
  /\ recLang = "None"
  /\ startInRec = FALSE

----------------------------------------------------------------------------
(* The user *)

\* the user picks another language in the selectbox (line 96)
SelectLanguage ==
  /\ \E l \in Languages \ {selectbox} : selectbox' = l
  /\ rerun' = TRUE
  /\ UNCHANGED <<fed, recLang, startInRec, clicked, pc, language, pressed, start, done, results, matched,
                 triage, outbreak, q, pushed, expired, pending, final,
                 payload, entry, err, reports, flushes>>

\* the user clicks a button; the feedback button of the Logs tab exists once
\* the results have been displayed
Click ==
  /\ clicked = "none"
  /\ \E b \in Buttons :
       /\ b = "btn_fb" => done /\ pc = "idle"
       /\ clicked' = b
       /\ startInRec' = (b = "btn_start" /\ pc \in RecordingPcs)
  /\ rerun' = TRUE
  /\ UNCHANGED <<fed, recLang, selectbox, pc, language, pressed, start, done, results, matched,
                 triage, outbreak, q, pushed, expired, pending, final,
                 payload, entry, err, reports, flushes>>

----------------------------------------------------------------------------
(* The script *)

\* mutant of Trigger: the done flag is not consulted
TriggerIgnoresDone(s, d) == s

\* if st.session_state.start and not st.session_state.done (line 191)
Trigger(s, d) == s /\ ~d

\* mutant of RunTop: the start button does not clear the done flag
RunTopKeepsDone ==
  /\ pc = "idle"
  /\ rerun
  /\ rerun' = FALSE
  /\ language' = selectbox
  /\ pressed' = clicked
  /\ clicked' = "none"
  /\ startInRec' = FALSE
  /\ IF clicked = "btn_start"
       THEN /\ start' = TRUE
            /\ results' = <<>>
            /\ matched' = <<>>
            /\ err' = "none"
            /\ payload' = NoReport
            /\ entry' = NoReport
            /\ UNCHANGED <<done, reports, recLang>>
       ELSE UNCHANGED <<start, done, results, matched, err, reports, payload, entry,
                         recLang>>
  /\ pc' = IF Trigger(start', done') THEN "prompts" ELSE "display"
  /\ UNCHANGED <<selectbox, triage, outbreak, q, pushed, expired, pending,
                 final, flushes, fed>>

\* lines 94-138 and 191: the script starts over, reads the widgets, handles
\* the start button and decides whether to record
RunTop ==
  /\ pc = "idle"
  /\ rerun
  /\ rerun' = FALSE
  /\ language' = selectbox
  /\ pressed' = clicked
  /\ clicked' = "none"
  /\ startInRec' = FALSE
  /\ IF clicked = "btn_start"
       THEN /\ start' = TRUE
            /\ done' = FALSE
            /\ results' = <<>>
            /\ matched' = <<>>
            /\ err' = "none"
            /\ reports' = 0
            /\ payload' = NoReport
            /\ entry' = NoReport
            /\ recLang' = "None"
       ELSE UNCHANGED <<start, done, results, matched, err, reports, payload, entry,
                         recLang>>
  /\ pc' = IF Trigger(start', done') THEN "prompts" ELSE "display"
  /\ UNCHANGED <<selectbox, triage, outbreak, q, pushed, expired, pending,
                 final, flushes, fed>>

\* a re-execution was requested: the running script stops at its next st.* call
StopForRerun ==
  /\ pc \in YieldPcs
  /\ rerun
  /\ pc' = "idle"
  /\ pressed' = "none"
  /\ DropLocals
  /\ UNCHANGED <<recLang, startInRec, selectbox, clicked, rerun, language, start, done,
                 results, matched, triage, outbreak, payload, entry, err,
                 reports>>

\* lines 143-153: the prompts are shown and spoken
Prompts ==
  /\ pc = "prompts"
  /\ ~rerun
  /\ pc' = "model"
  /\ UNCHANGED <<fed, recLang, startInRec, selectbox, clicked, rerun, language, pressed, start, done,
                 results, matched, triage, outbreak, q, pushed, expired,
                 pending, final, payload, entry, err, reports, flushes>>

\* mutant of CheckModel: the failed attempt clears the accumulated segments
CheckModelClearsResults ==
  /\ pc = "model"
  /\ \E isdir \in BOOLEAN :
       IF isdir
         THEN /\ pc' = "open"
              /\ UNCHANGED <<err, pressed, results>>
         ELSE /\ pc' = "idle"
              /\ err' = "model"
              /\ pressed' = "none"
              /\ results' = <<>>
  /\ UNCHANGED <<fed, recLang, startInRec, selectbox, clicked, rerun, language, start, done,
                 matched, triage, outbreak, q, pushed, expired,
                 pending, final, payload, entry, reports, flushes>>

\* lines 155-158: the model folder of the language is looked up; when it is
\* missing, st.error and return, and the script ends (done is False)
CheckModel ==
  /\ pc = "model"
  /\ \E isdir \in BOOLEAN :
       IF isdir
         THEN /\ pc' = "open"
              /\ UNCHANGED <<err, pressed>>
         ELSE /\ pc' = "idle"
              /\ err' = "model"
              /\ pressed' = "none"
  /\ UNCHANGED <<fed, recLang, startInRec, selectbox, clicked, rerun, language, start, done,
                 results, matched, triage, outbreak, q, pushed, expired,
                 pending, final, payload, entry, reports, flushes>>

\* lines 159-171: model, recognizer, queue and capture stream are created;
\* loading the model or opening the stream raises when the model is unreadable
\* or there is no usable capture device, which ends the script run
OpenStream ==
  /\ pc = "open"
  /\ \E opened \in BOOLEAN :
       IF opened
         THEN /\ pc' = "while"
              /\ UNCHANGED <<err, pressed>>
         ELSE /\ pc' = "idle"
              /\ err' = "device"
              /\ pressed' = "none"
  /\ DropLocals
  /\ UNCHANGED <<recLang, startInRec, selectbox, clicked, rerun, language, start, done,
                 results, matched, triage, outbreak, payload, entry, reports>>

\* line 169: callback=lambda d, f, t, s: q.put(bytes(d))
AudioCallback ==
  /\ pc \in StreamPcs
  /\ pushed < MaxFrames
  /\ pushed' = pushed + 1
  /\ q' = Append(q, pushed + 1)
  /\ UNCHANGED <<fed, recLang, startInRec, selectbox, clicked, rerun, pc, language, pressed, start, done,
                 results, matched, triage, outbreak, expired, pending,
                 final, payload, entry, err, reports, flushes>>

\* ten seconds have passed since t0 (line 171)
Tick ==
  /\ pc \in RecordingPcs
  /\ ~expired
  /\ expired' = TRUE
  /\ UNCHANGED <<fed, recLang, startInRec, selectbox, clicked, rerun, pc, language, pressed, start, done,
                 results, matched, triage, outbreak, q, pushed, pending,
                 final, payload, entry, err, reports, flushes>>

\* line 172: while time.time() - t0 < 10
While ==
  /\ pc = "while"
  /\ pc' = IF expired THEN "final" ELSE "get"
  /\ UNCHANGED <<fed, recLang, startInRec, selectbox, clicked, rerun, language, pressed, start, done,
                 results, matched, triage, outbreak, q, pushed, expired,
                 pending, final, payload, entry, err, reports, flushes>>

\* mutant of QGet: the newest frame is taken
QGetNewest(qq) == <<qq[Len(qq)], SubSeq(qq, 1, Len(qq) - 1)>>

\* q.get() on a queue.Queue (first in, first out): the frame taken and the
\* frames left
QGet(qq) == <<Head(qq), Tail(qq)>>

\* lines 173-177: data = q.get() waits until the queue holds a frame; then
\* rec.AcceptWaveform(data) raises (which ends the script run), returns False
\* (no utterance boundary yet) or returns True, and then the text of
\* rec.Result() is appended unless it is empty
Get ==
  /\ pc = "get"
  /\ q # <<>>
  /\ \/ /\ err' = "decode"
        /\ pc' = "idle"
        /\ pressed' = "none"
        /\ DropLocals
        /\ UNCHANGED results
     \/ /\ q' = QGet(q)[2]
        /\ fed' = Append(fed, QGet(q)[1])
        /\ pending' = TRUE
        /\ pc' = "while"
        /\ UNCHANGED <<results, pushed, expired, err, pressed, final, flushes>>
     \/ /\ q' = QGet(q)[2]
        /\ fed' = Append(fed, QGet(q)[1])
        /\ \E txt \in DecodedTexts(results) :
             results' = IF txt # EmptyText THEN Append(results, txt) ELSE results
        /\ pending' = FALSE
        /\ pc' = "while"
        /\ UNCHANGED <<pushed, expired, err, pressed, final, flushes>>
  /\ UNCHANGED <<recLang, startInRec, selectbox, clicked, rerun, language, start, done,
                 matched, triage, outbreak, payload, entry, reports>>

\* mutant of Final: the final text is appended also when it is empty
FinalAlwaysAppends ==
  /\ pc = "final"
  /\ \E txt \in (IF pending THEN DecodedTexts(results) ELSE {EmptyText}) :
       /\ final' = txt
       /\ results' = Append(results, txt)
  /\ flushes' = flushes + 1
  /\ pc' = "post"
  /\ q' = <<>>
  /\ pushed' = 0
  /\ expired' = FALSE
  /\ pending' = FALSE
  /\ fed' = <<>>
  /\ UNCHANGED <<recLang, startInRec, selectbox, clicked, rerun, language, pressed, start, done,
                 matched, triage, outbreak, payload, entry, err, reports>>

\* lines 178-180: rec.FinalResult(); its text is appended unless it is empty;
\* then the capture stream is closed
Final ==
  /\ pc = "final"
  /\ \E txt \in (IF pending THEN DecodedTexts(results) ELSE {EmptyText}) :
       /\ final' = txt
       /\ results' = IF txt # EmptyText THEN Append(results, txt) ELSE results
  /\ flushes' = flushes + 1
  /\ pc' = "post"
  /\ q' = <<>>
  /\ pushed' = 0
  /\ expired' = FALSE
  /\ pending' = FALSE
  /\ fed' = <<>>
  /\ UNCHANGED <<recLang, startInRec, selectbox, clicked, rerun, language, pressed, start, done,
                 matched, triage, outbreak, payload, entry, err, reports>>

\* mutant of PostProcess: a High outbreak risk raises the triage risk to High
PostProcessConflated ==
  /\ pc = "post"
  /\ ~rerun
  /\ matched' = Match(join(results), language)
  /\ outbreak' \in OutbreakChoices(instr)
  /\ triage' = IF outbreak' = instr.high
                 THEN instr.high
                 ELSE Triage(Len(matched'), instr)
  /\ done' = TRUE
  /\ recLang' = language
  /\ reports' = reports + 1
  /\ pc' = "display"
  /\ DropLocals
  /\ UNCHANGED <<startInRec, selectbox, clicked, rerun, language, pressed, start, results,
                 payload, entry, err>>

\* lines 183-188: post-process
PostProcess ==
  /\ pc = "post"
  /\ ~rerun
  /\ matched' = Match(join(results), language)
  /\ triage' = Triage(Len(matched'), instr)
  /\ outbreak' \in OutbreakChoices(instr)
  /\ done' = TRUE
  /\ recLang' = language
  /\ reports' = reports + 1
  /\ pc' = "display"
  /\ DropLocals
  /\ UNCHANGED <<startInRec, selectbox, clicked, rerun, language, pressed, start, results,
                 payload, entry, err>>

\* payload (lines 216-222); entry (lines 245-253) holds the same fields, with
\* a timestamp and the notes
Report(loc) ==
  [location |-> loc, language |-> language, symptoms |-> matched,
   triage |-> triage, outbreak |-> outbreak]

\* lines 195-265: when done, the results are displayed, the QR code is made
\* from the payload, and the entry is logged when the feedback button was
\* pressed; then the script run ends
Display ==
  /\ pc = "display"
  /\ ~rerun
  /\ IF done
       THEN \E loc \in Locations :
              /\ payload' = Report(loc)
              /\ entry' = IF pressed = "btn_fb" THEN Report(loc) ELSE entry
       ELSE UNCHANGED <<payload, entry>>
  /\ pc' = "idle"
  /\ pressed' = "none"
  /\ UNCHANGED <<fed, recLang, startInRec, selectbox, clicked, rerun, language, start, done,
                 results, matched, triage, outbreak, q, pushed, expired,
                 pending, final, err, reports, flushes>>

----------------------------------------------------------------------------
Next ==
  \/ SelectLanguage
  \/ Click
  \/ RunTop
  \/ StopForRerun
  \/ Prompts
  \/ CheckModel
  \/ OpenStream
  \/ AudioCallback
  \/ Tick
  \/ While
  \/ Get
  \/ Final
  \/ PostProcess
  \/ Display

Spec == Init /\ [][Next]_vars

\* the scheduler runs the script's thread and time passes; nothing is assumed
\* of the audio device's callbacks or of the user
FairSpec ==
  /\ Spec
  /\ WF_vars(Tick)
  /\ WF_vars(While)
  /\ WF_vars(Get)
  /\ WF_vars(Final)

----------------------------------------------------------------------------
(* The post-processing applied to every list of segments up to MaxLen *)

BoundedSeq(S, n) == UNION {[1..k -> S] : k \in 0..n}

\* record_and_process has left the recording block (line 181) with any list
\* of non-empty segments, in any language
ScoreInit ==
  /\ selectbox \in Languages
  /\ language = selectbox
  /\ clicked = "none"
  /\ rerun = FALSE
  /\ pc = "post"
  /\ pressed = "btn_start"
  /\ start = TRUE
  /\ done = FALSE
  /\ results \in BoundedSeq(Utterances, MaxLen)
  /\ matched = <<>>
  /\ triage = "None"
  /\ outbreak = "None"
  /\ q = <<>>
  /\ pushed = 0
  /\ expired = FALSE
  /\ pending = FALSE
  /\ final = EmptyText
  /\ payload = NoReport
  /\ entry = NoReport
  /\ err = "none"
  /\ reports = 0
  /\ flushes = 1
  /\ fed = <<>>
  /\ recLang = "None"
  /\ startInRec = FALSE

ScoreNext == PostProcess

ScoreSpec == ScoreInit /\ [][ScoreNext]_vars

----------------------------------------------------------------------------
(* Properties *)

\* the risk level a label stands for, in either language
LevelOf(label) ==
  IF \E l \in Languages : INSTRUCTIONS[l].high = label THEN "High"
  ELSE IF \E l \in Languages : INSTRUCTIONS[l].moderate = label THEN "Moderate"
  ELSE IF \E l \in Languages : INSTRUCTIONS[l].low = label THEN "Low"
  ELSE "None"

Range(f) == {f[i] : i \in DOMAIN f}

\* t occurs in s when letter case is ignored
OccursIn(t, s) ==
  \E off \in 0..Len(s) :
    /\ off + Len(t) <= Len(s)
    /\ \A j \in 1..Len(t) : lowerChar(s[off + j]) = lowerChar(t[j])

\* sub is obtained from seq by deleting elements: it keeps the order of seq
\* and takes each position at most once
RECURSIVE IsSubSeq(_, _)
IsSubSeq(sub, seq) ==
  IF sub = <<>> THEN TRUE
  ELSE IF seq = <<>> THEN FALSE
  ELSE IF Head(sub) = Head(seq) THEN IsSubSeq(Tail(sub), Tail(seq))
  ELSE IsSubSeq(sub, Tail(seq))

\* C1: once record_and_process has completed, the stored triage risk is High
\* iff the session has at least 6 matched symptoms, Moderate iff it has 3 to 5,
\* and Low iff it has fewer than 3; the count lies between 0 and 12
C1_TriageThresholds ==
  done =>
    LET k == Len(matched)
        lvl == LevelOf(triage)
    IN  /\ k \in 0..Len(SYMPTOMS[language])
        /\ lvl \in {"High", "Moderate", "Low"}
        /\ lvl = "High" <=> k >= 6
        /\ lvl = "Moderate" <=> (3 <= k /\ k < 6)
        /\ lvl = "Low" <=> k < 3

\* a session with exactly six matched symptoms is stored as High
C1_Witness ==
  /\ done
  /\ Len(matched) = 6
  /\ triage = INSTRUCTIONS[language].high

\* C2: the matched list of a completed session is the vocabulary of the
\* active language restricted to the terms that occur, ignoring case, in the
\* space-joined transcript: in vocabulary order, each term at most once, and
\* no term that is absent from the transcript; the transcript
\* "i have a fever and fatigue and nausea" gives fever, fatigue, nausea
C2_MatchedIsVocabularyFilter ==
  done =>
    LET vocab == SYMPTOMS[language]
        full == join(results)
    IN  /\ IsSubSeq(matched, vocab)
        /\ \A i, j \in 1..Len(matched) : matched[i] = matched[j] => i = j
        /\ \A t \in Range(vocab) : t \in Range(matched) <=> OccursIn(t, full)
        /\ (results = <<U1>> /\ language = "English")
             => matched = <<vocab[1], vocab[5], vocab[6]>>

\* a transcript in which fatigue and nausea are said before chills, HEADACHE is
\* in upper case and "muscle pain" spans two segments: all twelve terms are
\* matched, chills second and headache third
C2_Witness ==
  /\ done
  /\ language = "English"
  /\ results = <<U1, U2, U3>>
  /\ matched[2] = SYMPTOMS["English"][2]
  /\ matched[3] = SYMPTOMS["English"][3]
  /\ Len(matched) = 12

\* C3: in every start cycle at most one completion happens, none happens
\* before a start command, and record_and_process is not running while the
\* session is done
C3_OneReportPerStart ==
  /\ reports <= 1
  /\ ~start => reports = 0
  /\ done <=> reports = 1
  /\ pc \in AttemptPcs => start /\ ~done

\* a completed session whose results were displayed again on a later run, for
\* the feedback button, without a second completion
C3_Witness ==
  /\ done
  /\ reports = 1
  /\ entry # NoReport
  /\ pc = "idle"

\* C4: the run that handles a start command issued during the recording
\* window of a session without errors changes none of start, done, results,
\* matched and begins no recording
C4_StartWhileRecordingIsNoOp ==
  [][(pc = "idle" /\ pc' # "idle" /\ clicked = "btn_start" /\ startInRec
        /\ err = "none")
       => (UNCHANGED <<start, done, results, matched>> /\ pc' # "prompts")]_vars

\* C5: a session in the recording window eventually leaves it
C5_WindowEnds ==
  (pc \in RecordingPcs) ~> (pc \notin RecordingPcs)

\* C6 as claimed: the final flush adds exactly one segment to results
C6_FlushAddsOneSegment ==
  [][(pc = "final" /\ pc' = "post") => Len(results') = Len(results) + 1]_vars

\* C6: when the recording loop has ended, FinalResult is called exactly once,
\* and its text is appended to results exactly when it is not empty
C6_FlushOnceAppendsNonEmpty ==
  /\ [](pc \in RecordingPcs \cup {"final"} => flushes = 0)
  /\ [](pc = "post" => flushes = 1)
  /\ [][(pc = "final" /\ pc' = "post")
          => /\ flushes' = flushes + 1
             /\ results' = IF final' # EmptyText
                             THEN Append(results, final')
                             ELSE results]_vars

\* the final flush returned an empty text after one segment was decoded
C6_Witness ==
  /\ pc = "post"
  /\ flushes = 1
  /\ final = EmptyText
  /\ Len(results) = 1

\* C7: an attempt that ends because the model folder is missing, or because
\* the capture stream cannot be opened, ends the run with done False, and no
\* step of the attempt up to and including the failure changes results,
\* matched, triage, outbreak or the reports handed out
C7_FatalLeavesNoReport ==
  [][(pc \in {"prompts", "model", "open"})
       => /\ ~done /\ ~done'
          /\ UNCHANGED <<results, matched, triage, outbreak, payload, entry>>
          /\ (pc \in {"model", "open"} /\ pc' = "idle")
               => err' \in {"model", "device"}]_vars

\* a fatal error hit a session that held segments of an aborted attempt and
\* the risks of an earlier session
C7_Witness ==
  /\ err \in {"model", "device"}
  /\ pc = "idle"
  /\ ~done
  /\ results # <<>>
  /\ triage # "None"

\* C8: after a fatal error no recording attempt is in progress until the
\* next start command
C8_FatalStaysIdle ==
  err \in {"model", "device"} => pc \notin AttemptPcs

\* C9: a session in which AcceptWaveform raised is not left without a Report
\* when its script run has ended
C9_DecodeErrorStillReports ==
  (err = "decode" /\ pc = "idle") => done

\* C10: while the session stays done, the payload handed out does not change
C10_ReportImmutable ==
  [][(done /\ done' /\ payload # NoReport) => payload' = payload]_vars

\* C11: the matched list of a completed session holds only terms of the
\* vocabulary of the language of its recording; a term that only the other
\* language has is not matched, also when it occurs in the transcript
C11_LanguageIsolation ==
  done =>
    /\ Range(matched) \subseteq Range(SYMPTOMS[language])
    /\ \A l \in Languages \ {language} :
         \A t \in Range(SYMPTOMS[l]) \ Range(SYMPTOMS[language]) :
           t \notin Range(matched)

\* an English session whose transcript holds the French term "fièvre", which
\* is not matched, beside English terms, which are
C11_Witness ==
  /\ done
  /\ language = "English"
  /\ OccursIn(SYMPTOMS["French"][1], join(results))
  /\ SYMPTOMS["French"][1] \notin Range(matched)
  /\ SYMPTOMS["English"][1] \in Range(matched)

\* the labels of all languages
AllLabels == UNION {OutbreakChoices(INSTRUCTIONS[l]) : l \in Languages}

\* C12: for a given transcript and language the post-processing stores one
\* and the same triage risk with each of the three values the outbreak
\* placeholder can draw, and with seven matched symptoms that risk is High
C12_TriageIndependentOfOutbreak ==
  /\ (pc = "post" /\ ~rerun) =>
       \E t \in AllLabels :
         /\ \A o \in OutbreakChoices(instr) :
              ENABLED (PostProcess /\ outbreak' = o /\ triage' = t)
         /\ ~ENABLED (PostProcess /\ triage' # t)
  /\ (done /\ Len(matched) = 7) => triage = instr.high

\* a session with seven matched symptoms stored as High while the outbreak
\* placeholder drew Low
C12_Witness ==
  /\ done
  /\ Len(matched) = 7
  /\ triage = instr.high
  /\ outbreak = instr.low

\* C13: a recording window (of a session in which nothing raised) opens with
\* no segment of an earlier, interrupted attempt in results, so that the
\* transcript scored at its end holds only segments of its own window
C13_InterruptedAttemptDiscarded ==
  [][(pc = "open" /\ pc' = "while" /\ err = "none") => results = <<>>]_vars

\* C14: in every state of a recording the frames fed to the recognizer are,
\* in order, the first frames the callback put on the queue, and the frames
\* still queued are the following ones: none is fed twice, skipped or fed
\* out of order
C14_FedIsPrefixOfPushed ==
  /\ Len(fed) + Len(q) <= pushed
  /\ \A i \in 1..Len(fed) : fed[i] = i
  /\ pc \in StreamPcs => \A i \in 1..Len(q) : q[i] = Len(fed) + i

\* the first frame has been fed and gave a segment, the second frame was
\* queued meanwhile and is the one the loop is about to take
C14_Witness ==
  /\ pc = "get"
  /\ fed = <<1>>
  /\ q = <<2>>
  /\ results # <<>>

\* C15: the queue never holds all the frames the callback delivers in a
\* window: its capacity is smaller, and a push onto the full queue waits
C15_QueueBounded ==
  Len(q) < MaxFrames

\* the lists of segments a session of Spec can hold, each with a language and
\* the match of its space-joined text against the vocabulary of that language
MatchOfResults ==
  {<<r, l, Match(join(r), l)>> : r \in BoundedSeq(Speech, MaxSegs), l \in Languages}

\* C16: whenever done is True, matched is the match of the space-joined
\* results against the vocabulary of the language of the recording, triage is
\* the step function of the length of matched in the labels of that language,
\* and outbreak is one of the three labels of that language
C16_StoredResultConsistent ==
  done =>
    /\ recLang \in Languages
    /\ <<results, recLang, matched>> \in MatchOfResults
    /\ triage = Triage(Len(matched), INSTRUCTIONS[recLang])
    /\ outbreak \in OutbreakChoices(INSTRUCTIONS[recLang])

\* a session recorded in French is done, with a match, and was displayed
\* again after the selectbox was set to English
C16_Witness ==
  /\ done
  /\ pc = "idle"
  /\ recLang = "French"
  /\ language = "English"
  /\ matched # <<>>
  /\ triage = INSTRUCTIONS["French"].low

\* the symptoms of a report belong to the vocabulary of the language it
\* names, and its risk labels are labels of that language
ReportConsistent(r) ==
  r # NoReport =>
    /\ r.language \in Languages
    /\ Range(r.symptoms) \subseteq Range(SYMPTOMS[r.language])
    /\ r.triage \in OutbreakChoices(INSTRUCTIONS[r.language])
    /\ r.outbreak \in OutbreakChoices(INSTRUCTIONS[r.language])

\* C17: the payload and the log entry handed out are consistent in language
C17_ReportLanguageConsistent ==
  /\ ReportConsistent(payload)
  /\ ReportConsistent(entry)

====
